---- MODULE Spec2Model ----
(***************************************************************************)
(* Model of src/ez-tree-demo/src/TreeDemo.js: the TreeDemo React component. *)
(* The state is the closure state of the mount effect (forestGroup,        *)
(* placedPositions, params, the renderer / pane / listener it creates) and  *)
(* the mount element's dataset flag.  createForest and getRandomPosition    *)
(* are stepped one loop iteration at a time; handlers never interleave      *)
(* (the host is single-threaded), so a handler starts only when pc = "idle".*)
(***************************************************************************)
EXTENDS Integers, Sequences, FiniteSets, TLC

\* ------------------------------------------------------------------ bounds
\* Tree Count slider maximum (max: 50 at TreeDemo.js:394), scaled down.
MaxCount == 3
\* params.treeCount at construction (15 at TreeDemo.js:152), scaled down.
InitialTreeCount == 2
\* Retry ceiling of getRandomPosition (the literal 200 at TreeDemo.js:135),
\* scaled down: every formula below is stated in terms of maxRetries.
maxRetries == 2
\* Control-change events are accepted while fewer than MaxTrees Tree objects
\* have been built for the forest (caps the allocation counter).
MaxTrees == 5
\* Largest count handed to createForest by the direct-call specification.
MaxCallCount == 5

\* --------------------------------------------------------- program constants
groundSize == 500
minDistance == 40
MinTreeCount == 1
safeRadius == groundSize \div 2 - 40

\* Values of Math.random() the model draws, as fractions <<num, den>> in [0,1).
CallDraws == {<<0, 1>>, <<1, 2>>}
RandomDraws == CallDraws \cup {<<4, 7>>}
Presets == {"Ash Medium", "Oak Medium"}

VARIABLES
    initialized,       \* mountRef.current.dataset.initialized
    effect,            \* the outstanding effect run: "none", "live" (returned a cleanup), "noop"
    renderersCreated,  \* WebGLRenderer objects constructed so far
    panesCreated,      \* Pane objects constructed so far
    listenersAdded,    \* resize listeners registered so far
    canvasAttached,    \* renderer canvases currently children of the mount element
    paneAlive,         \* the pane exists and is not disposed
    listening,         \* handleResize is registered on window
    preset,            \* params.preset / settings.preset
    treeCount,         \* params.treeCount
    forestGroup,       \* forestGroup.children: sequence of [id, pos]
    placedPositions,   \* the closure's placedPositions array
    allocated,         \* Tree objects constructed for the forest so far (object identity)
    pc,                \* "idle", "loop" (for-loop head), "sample" (do-while body), "tail"
    handler,           \* the handler running (or the last one that ran)
    count,             \* createForest's argument
    i,                 \* createForest's loop index
    tries,             \* getRandomPosition's local
    pos,               \* getRandomPosition's local: <<>> while undefined, else <<vector>>
    \* history variables
    viaBreak,          \* per element of placedPositions: pushed after the tries > maxRetries break
    rejected,          \* candidates of the current getRandomPosition call tested and rejected
    draws,             \* candidates drawn by the current getRandomPosition call
    comparisons,       \* evaluations of p.distanceTo(pos) < minDistance in the current createForest call
    before,            \* ids of the trees in forestGroup when the current handler started
    \* a freshly constructed instance fed the same count and the same draws
    sPlaced, sI, sTries, sync

coreVars == <<initialized, effect, renderersCreated, panesCreated, listenersAdded,
              canvasAttached, paneAlive, listening, preset, treeCount, forestGroup,
              placedPositions, allocated, pc, handler, count, i, tries, pos>>
histVars == <<viaBreak, rejected, draws, comparisons, before>>
shadowVars == <<sPlaced, sI, sTries, sync>>
vars == <<coreVars, histVars, shadowVars>>
lifecycleVars == <<initialized, effect, renderersCreated, panesCreated, listenersAdded,
                   canvasAttached, paneAlive, listening>>

\* ----------------------------------------------------------------- helpers
Vector3(x, y, z) == [x |-> x, y |-> y, z |-> z]
Origin == Vector3(0, 0, 0)

\* THREE.MathUtils.randFloatSpread(range) = range * (0.5 - Math.random()),
\* with Math.random() = r[1] / r[2].
randFloatUnspread(range, r) == (range * r[1]) \div r[2]
randFloatSpread(range, r) == (range * (r[2] - 2 * r[1])) \div (2 * r[2])

\* Square of p.distanceTo(q).
distanceToSquared(p, q) ==
    (p.x - q.x) * (p.x - q.x) + (p.y - q.y) * (p.y - q.y) + (p.z - q.z) * (p.z - q.z)

\* p.distanceTo(q) < minDistance, compared on the squares.
TooCloseUnsquared(p, q) == distanceToSquared(p, q) < minDistance
TooClose(p, q) == distanceToSquared(p, q) < minDistance * minDistance

\* placedPositions.some((p) => p.distanceTo(cand) < minDistance)
someLastOnly(placed, cand) == Len(placed) > 0 /\ TooClose(placed[Len(placed)], cand)
some(placed, cand) == \E k \in 1..Len(placed) : TooClose(placed[k], cand)

\* Number of callback evaluations some() makes: it stops at the first true.
someEvaluations(placed, cand) ==
    IF some(placed, cand)
    THEN CHOOSE k \in 1..Len(placed) :
            /\ TooClose(placed[k], cand)
            /\ \A j \in 1..(k - 1) : ~TooClose(placed[j], cand)
    ELSE Len(placed)

\* if (tries > 200) break;
BudgetExhaustedEarly(t) == t >= maxRetries
BudgetNeverExhausted(t) == FALSE
BudgetExhaustedLate(t) == t > maxRetries + 1
BudgetExhausted(t) == t > maxRetries

\* placedPositions.length = 0
KeepPositions(placed) == placed
ClearedPositions(placed) == <<>>

\* while (forestGroup.children.length > 0) forestGroup.children.pop()
PopOneChild(children) == IF children = <<>> THEN <<>> ELSE SubSeq(children, 1, Len(children) - 1)
DisposedChildren(children) == <<>>

\* if (mountRef.current?.dataset.initialized) return;
NeverInitialized(flag) == FALSE
AlreadyInitialized(flag) == flag

\* mainTree.position.set(0, 0, 0)
MainTreePosition == Origin

TreeIds(children) == {children[k].id : k \in 1..Len(children)}
Positions(children) == [k \in 1..Len(children) |-> children[k].pos]

\* A candidate position of getRandomPosition, lines 131-133.
Candidate(rx, rz) ==
    Vector3(randFloatSpread(safeRadius * 2, rx), 0, randFloatSpread(safeRadius * 2, rz))

\* ------------------------------------------------------------------- Init
\* The component is rendered; its mount effect has not run yet.
Init ==
    /\ initialized = FALSE
    /\ effect = "none"
    /\ renderersCreated = 0
    /\ panesCreated = 0
    /\ listenersAdded = 0
    /\ canvasAttached = 0
    /\ paneAlive = FALSE
    /\ listening = FALSE
    /\ preset = "Ash Medium"
    /\ treeCount = InitialTreeCount
    /\ forestGroup = <<>>
    /\ placedPositions = <<>>
    /\ allocated = 0
    /\ pc = "idle"
    /\ handler = "none"
    /\ count = 0
    /\ i = 0
    /\ tries = 0
    /\ pos = <<>>
    /\ viaBreak = <<>>
    /\ rejected = 0
    /\ draws = 0
    /\ comparisons = 0
    /\ before = {}
    /\ sPlaced = <<>>
    /\ sI = 0
    /\ sTries = 0
    /\ sync = TRUE

\* ----------------------------------------------------------- createForest
\* createForest(c), lines 159-200: dispose the children, reset placedPositions,
\* build the main tree at the origin; control then reaches the for loop.
\* children and placed are the closure's forestGroup.children and
\* placedPositions at the call.
CreateForest(children, placed, c) ==
    /\ before' = TreeIds(children)
    /\ forestGroup' = Append(DisposedChildren(children),
                             [id |-> allocated + 1, pos |-> MainTreePosition])
    /\ placedPositions' = ClearedPositions(placed)
    /\ viaBreak' = SubSeq(viaBreak, 1, Len(placedPositions'))
    /\ allocated' = allocated + 1
    /\ count' = c
    /\ i' = 1
    /\ pc' = "loop"
    /\ tries' = 0
    /\ pos' = <<>>
    /\ rejected' = 0
    /\ draws' = 0
    /\ comparisons' = 0
    \* the fresh instance starts the same call on its own empty array
    /\ sPlaced' = <<>>
    /\ sI' = 1
    /\ sTries' = 0
    /\ sync' = TRUE

\* Head of "for (let i = 1; i < count; i++)", lines 202-217: build the next
\* tree and enter getRandomPosition, or leave the loop.
ForLoop ==
    /\ pc = "loop"
    /\ IF i < count
       THEN /\ allocated' = allocated + 1
            /\ pc' = "sample"
       ELSE /\ allocated' = allocated
            /\ pc' = "tail"
    /\ tries' = 0
    /\ pos' = <<>>
    /\ rejected' = 0
    /\ draws' = 0
    /\ UNCHANGED <<lifecycleVars, preset, treeCount, forestGroup, placedPositions,
                   handler, count, i, viaBreak, comparisons, before, shadowVars>>

\* One iteration of the do-while of getRandomPosition, lines 130-136, with
\* Math.random() returning rx then rz; when the loop is left, lines 137-138
\* and 218-219 (push, return, place the tree, add it, i++).
Iterate(rx, rz) ==
    /\ pc = "sample"
    /\ LET cand == Candidate(rx, rz)
           t == tries + 1
           broke == BudgetExhausted(t)
           again == ~broke /\ some(placedPositions, cand)
           sRunning == sI < count
           st == sTries + 1
           sExit == BudgetExhausted(st) \/ ~some(sPlaced, cand)
       IN  /\ pos' = <<cand>>
           /\ tries' = t
           /\ draws' = draws + 1
           /\ comparisons' = IF broke THEN comparisons
                             ELSE comparisons + someEvaluations(placedPositions, cand)
           /\ IF again
              THEN /\ rejected' = rejected + 1
                   /\ UNCHANGED <<placedPositions, viaBreak, forestGroup, i, pc>>
              ELSE /\ rejected' = rejected
                   /\ placedPositions' = Append(placedPositions, cand)
                   /\ viaBreak' = Append(viaBreak, broke)
                   /\ forestGroup' = Append(forestGroup, [id |-> allocated, pos |-> cand])
                   /\ i' = i + 1
                   /\ pc' = "loop"
           /\ IF sRunning
              THEN /\ sPlaced' = IF sExit THEN Append(sPlaced, cand) ELSE sPlaced
                   /\ sI' = IF sExit THEN sI + 1 ELSE sI
                   /\ sTries' = IF sExit THEN 0 ELSE st
                   /\ sync' = sync
              ELSE /\ sync' = FALSE
                   /\ UNCHANGED <<sPlaced, sI, sTries>>
    /\ UNCHANGED <<lifecycleVars, preset, treeCount, allocated, handler, count, before>>

\* createForest returns (lines 222-227) and the handler that called it ends:
\* the effect builds the pane and registers handleResize (lines 234-422),
\* the slider handler stores e.value (line 399).
Return ==
    /\ pc = "tail"
    /\ pc' = "idle"
    /\ IF handler = "effect"
       THEN /\ panesCreated' = panesCreated + 1
            /\ paneAlive' = TRUE
            /\ listenersAdded' = listenersAdded + 1
            /\ listening' = TRUE
       ELSE UNCHANGED <<panesCreated, paneAlive, listenersAdded, listening>>
    /\ treeCount' = IF handler = "slider" THEN count ELSE treeCount
    /\ sync' = (sync /\ sI >= count)
    /\ UNCHANGED <<initialized, effect, renderersCreated, canvasAttached, preset,
                   forestGroup, placedPositions, allocated, handler, count, i, tries, pos,
                   histVars, sPlaced, sI, sTries>>

\* ---------------------------------------------------------------- effect
\* The mount effect, lines 48-231: the dataset guard, then scene, renderer and
\* canvas, a new closure (forestGroup, placedPositions, params) and the
\* initial createForest(params.treeCount).
EffectRun ==
    /\ pc = "idle"
    /\ effect = "none"
    /\ IF AlreadyInitialized(initialized)
       THEN /\ effect' = "noop"
            /\ UNCHANGED <<initialized, renderersCreated, panesCreated, listenersAdded,
                           canvasAttached, paneAlive, listening, preset, treeCount,
                           forestGroup, placedPositions, allocated, pc, handler, count, i,
                           tries, pos, histVars, shadowVars>>
       ELSE /\ initialized' = TRUE
            /\ effect' = "live"
            /\ renderersCreated' = renderersCreated + 1
            /\ canvasAttached' = canvasAttached + 1
            /\ preset' = "Ash Medium"
            /\ treeCount' = InitialTreeCount
            /\ handler' = "effect"
            /\ CreateForest(<<>>, <<>>, InitialTreeCount)
            /\ UNCHANGED <<panesCreated, listenersAdded, paneAlive, listening>>

\* The effect's cleanup, lines 425-433.  refSet: mountRef.current is still the
\* element (line 430's optional chain).  An effect run that returned at the
\* guard has no cleanup.
EffectCleanup(refSet) ==
    /\ pc = "idle"
    /\ effect # "none"
    /\ effect' = "none"
    /\ IF effect = "live"
       THEN /\ listening' = FALSE
            /\ paneAlive' = FALSE
            /\ canvasAttached' = IF refSet THEN 0 ELSE canvasAttached
       ELSE UNCHANGED <<listening, paneAlive, canvasAttached>>
    /\ UNCHANGED <<initialized, renderersCreated, panesCreated, listenersAdded, preset,
                   treeCount, forestGroup, placedPositions, allocated, pc, handler, count,
                   i, tries, pos, histVars, shadowVars>>

\* ------------------------------------------------------- control changes
ControlsLive == pc = "idle" /\ paneAlive /\ allocated < MaxTrees

\* onChange, lines 240-243: a binding of the Tree folder changed.
OnChange ==
    /\ ControlsLive
    /\ handler' = "onChange"
    /\ CreateForest(forestGroup, placedPositions, treeCount)
    /\ UNCHANGED <<lifecycleVars, preset, treeCount>>

\* The preset blade's handler, lines 261-277.
PresetChange(p) ==
    /\ ControlsLive
    /\ p # preset
    /\ preset' = p
    /\ handler' = "preset"
    /\ CreateForest(forestGroup, placedPositions, treeCount)
    /\ UNCHANGED <<lifecycleVars, treeCount>>

\* The Tree Count slider's handler, lines 391-401; the binding has written
\* e.value to params.treeCount before the handler runs.
TreeCountChange(v) ==
    /\ ControlsLive
    /\ v # treeCount
    /\ treeCount' = v
    /\ handler' = "slider"
    /\ CreateForest(forestGroup, placedPositions, v)
    /\ UNCHANGED <<lifecycleVars, preset>>

\* ------------------------------------------------------- specifications
Step == ForLoop \/ (\E rx \in RandomDraws, rz \in RandomDraws : Iterate(rx, rz)) \/ Return

Next ==
    \/ EffectRun
    \/ \E refSet \in BOOLEAN : EffectCleanup(refSet)
    \/ OnChange
    \/ \E p \in Presets : PresetChange(p)
    \/ \E v \in MinTreeCount..MaxCount : TreeCountChange(v)
    \/ ForLoop
    \/ \E rx \in RandomDraws, rz \in RandomDraws : Iterate(rx, rz)
    \/ Return

Spec == Init /\ [][Next]_vars

\* A handler runs to completion once started: the host never suspends it.
SpecLive == Spec /\ WF_vars(Step)

\* createForest(c) called directly on a freshly constructed closure (the state
\* at line 230 of the first effect run), for every c in 0..MaxCallCount.
InitCall ==
    /\ initialized = TRUE
    /\ effect = "live"
    /\ renderersCreated = 1
    /\ panesCreated = 0
    /\ listenersAdded = 0
    /\ canvasAttached = 1
    /\ paneAlive = FALSE
    /\ listening = FALSE
    /\ preset = "Ash Medium"
    /\ treeCount = InitialTreeCount
    /\ forestGroup = <<>>
    /\ placedPositions = <<>>
    /\ allocated = 0
    /\ pc = "idle"
    /\ handler = "none"
    /\ count = 0
    /\ i = 0
    /\ tries = 0
    /\ pos = <<>>
    /\ viaBreak = <<>>
    /\ rejected = 0
    /\ draws = 0
    /\ comparisons = 0
    /\ before = {}
    /\ sPlaced = <<>>
    /\ sI = 0
    /\ sTries = 0
    /\ sync = TRUE

Call(c) ==
    /\ pc = "idle"
    /\ handler = "none"
    /\ handler' = "call"
    /\ CreateForest(forestGroup, placedPositions, c)
    /\ UNCHANGED <<lifecycleVars, preset, treeCount>>

NextCall ==
    \/ \E c \in 0..MaxCallCount : Call(c)
    \/ ForLoop
    \/ \E rx \in CallDraws, rz \in CallDraws : Iterate(rx, rz)
    \/ Return

SpecCall == InitCall /\ [][NextCall]_vars

\* ------------------------------------------------------------- properties
\* "distance >= minDistance", stated on the squares.
FarApart(p, q) == distanceToSquared(p, q) >= minDistance * minDistance
Abs(n) == IF n < 0 THEN -n ELSE n
Satellites == SubSeq(Positions(forestGroup), 2, Len(forestGroup))
CallDone == pc = "idle" /\ handler = "call"
ControlChangeDone == pc = "idle" /\ handler \in {"onChange", "preset", "slider"}
\* getRandomPosition has just returned to createForest's loop.
JustPlaced == pc = "loop" /\ i > 1 /\ Len(placedPositions) > 0
LastPlacedConflicts ==
    \E k \in 1..(Len(placedPositions) - 1) :
        ~FarApart(placedPositions[k], placedPositions[Len(placedPositions)])

\* C1: when createForest(count) has returned, the forest holds exactly count
\* positions, for every count >= 0 (count = 0 gives an empty forest).
C1_ForestHoldsCount == CallDone => Len(forestGroup) = count

C3_SatellitesAvoidMainTree ==
    \A j \in 1..Len(placedPositions) :
        (j <= Len(viaBreak) /\ ~viaBreak[j]) => FarApart(placedPositions[j], MainTreePosition)

\* C4: every getRandomPosition call draws at most maxRetries + 1 candidates,
\* and every handler that started createForest reaches its end.
C4_Terminates ==
    /\ [](draws <= maxRetries + 1)
    /\ ((pc # "idle") ~> (pc = "idle"))

C4_Witness == JustPlaced /\ draws = maxRetries + 1 /\ LastPlacedConflicts

C6_LinearComparisons == comparisons <= count * maxRetries

\* C6 as amended: at most maxRetries * (count-1)(count-2)/2 comparisons per
\* call (none for count <= 2).
ComparisonBound(c) == IF c >= 2 THEN maxRetries * (((c - 1) * (c - 2)) \div 2) ELSE 0
C6_QuadraticComparisons == comparisons <= ComparisonBound(count)

C6_Witness ==
    /\ CallDone
    /\ count = MaxCallCount
    /\ comparisons = ComparisonBound(count)
    /\ comparisons > count * maxRetries

\* C7: a createForest call, whatever calls came before it, works on the same
\* placement list and ends with the same positions as a freshly constructed
\* instance given the same count and the same draws.
C7_NoStateAcrossCalls ==
    /\ (sync /\ pc # "idle") => (placedPositions = sPlaced /\ i = sI)
    /\ (sync /\ pc = "idle" /\ handler # "none") =>
          Positions(forestGroup) = <<MainTreePosition>> \o sPlaced

C7_Witness ==
    /\ ControlChangeDone
    /\ sync
    /\ Cardinality(before) >= 2
    /\ Len(placedPositions) >= 2
    /\ \E j \in 1..Len(viaBreak) : viaBreak[j]

\* C8: every tree of the forest stands within the bounding square
\* |x| <= safeRadius, |z| <= safeRadius, hence on the ground plane; the main
\* tree stands at the origin.
C8_RegionContainment ==
    /\ \A k \in 1..Len(forestGroup) :
          LET p == forestGroup[k].pos IN
          /\ Abs(p.x) <= safeRadius /\ Abs(p.z) <= safeRadius
          /\ 2 * Abs(p.x) <= groundSize /\ 2 * Abs(p.z) <= groundSize
          /\ p.y = 0
    /\ Len(forestGroup) > 0 => forestGroup[1].pos = Origin

C8_Witness ==
    /\ pc = "idle"
    /\ \E k \in 1..Len(placedPositions) :
          /\ viaBreak[k]
          /\ placedPositions[k].x = safeRadius
    /\ \E k \in 1..Len(forestGroup) : forestGroup[k].pos.z < 0

\* C9: after the handler of a control change, forestGroup holds exactly
\* params.treeCount distinct trees, none of which existed before the handler,
\* and placedPositions is exactly the params.treeCount - 1 satellite
\* positions of that rebuild.
C9_FullRebuild ==
    ControlChangeDone =>
        /\ Len(forestGroup) = treeCount
        /\ Cardinality(TreeIds(forestGroup)) = treeCount
        /\ TreeIds(forestGroup) \cap before = {}
        /\ Len(placedPositions) = treeCount - 1
        /\ placedPositions = Satellites

C9_Witness ==
    /\ ControlChangeDone
    /\ handler = "slider"
    /\ treeCount = MaxCount
    /\ Cardinality(before) >= 2

\* C10: only the first effect run creates a renderer, a pane and a resize
\* listener; at most one canvas is attached; an effect run after a cleanup
\* changes nothing but the effect's own bookkeeping.
C10_State ==
    /\ renderersCreated <= 1 /\ panesCreated <= 1 /\ listenersAdded <= 1
    /\ canvasAttached <= 1
C10_LaterRunIsNoop ==
    (initialized /\ effect # "live") =>
        /\ renderersCreated' = renderersCreated
        /\ panesCreated' = panesCreated
        /\ listenersAdded' = listenersAdded
        /\ canvasAttached' = canvasAttached
        /\ initialized'
        /\ pc' = "idle"
        /\ ~paneAlive' /\ ~listening'
C10_InitializedOnce == []C10_State /\ [][C10_LaterRunIsNoop]_vars

C10_Witness ==
    /\ initialized /\ effect = "noop"
    /\ renderersCreated = 1 /\ canvasAttached = 0

====
